---- MODULE Spec2Model ----
(***************************************************************************)
(* Model of spoke_lambda.py: the spoke-account Lambda that assumes a role  *)
(* in the hub (networking) account, invokes the hub Lambda with the event  *)
(* it received and maps the hub Lambda's response to a result.             *)
(*                                                                         *)
(* Python dicts are TLA+ functions (records), so DOMAIN d is d.keys().     *)
(* Python strings that are built by concatenation are sequences of string  *)
(* fragments.  A Python evaluation either returns a value or raises:       *)
(* [kind |-> "return", value |-> v] or [kind |-> "raise", ex |-> e].       *)
(***************************************************************************)
EXTENDS Integers, Sequences, FiniteSets, TLC

\* ---------------------------------------------------------------- bounds
\* Number of concurrently running execution environments of the function.
NumProcs == 2
\* Total number of lambda_handler calls in a behaviour.
MaxCalls == 2

Procs == 1..NumProcs
CallIds == 1..MaxCalls

\* ------------------------------------------------------- values and inputs
Return(v) == [kind |-> "return", value |-> v]
Raise(type, msg) == [kind |-> "raise", ex |-> [type |-> type, msg |-> msg]]

\* Order in which the keys of a mapping are written out.
KeyOrder == <<"Action", "ServiceId", "statusCode", "errorMessage">>

\* The events lambda_handler is called with.
Events ==
    { [Action |-> "Grant", ServiceId |-> "vpce-123"],
      [Action |-> "Revoke"] }

\* os.environ: the process configuration, any subset of the two keys.
EnvKeys == {"VPCE_PERM_ROLE_ARN", "FUNC_NAME"}
Environments ==
    { [k \in ks |-> IF k = "FUNC_NAME" THEN "hub-fn" ELSE "arn:role/hub"]
        : ks \in SUBSET EnvKeys }

\* Variant of json_dumps that loses the ServiceId entry.
json_dumps_drops_key(m) ==
    LET ks == SelectSeq(KeyOrder, LAMBDA k : k \in DOMAIN m /\ k # "ServiceId")
    IN  [i \in 1..Len(ks) |-> <<ks[i], m[ks[i]]>>]

\* json.dumps of a mapping: the key/value pairs of the mapping, in key order.
json_dumps(m) ==
    LET ks == SelectSeq(KeyOrder, LAMBDA k : k \in DOMAIN m)
    IN  [i \in 1..Len(ks) |-> <<ks[i], m[ks[i]]>>]

\* A text the JSON parser rejects (a pair without a key).
MalformedText == << <<"", 0>> >>

\* json.loads: the mapping a text denotes, or JSONDecodeError.
json_loads(text) ==
    IF \E i \in 1..Len(text) : text[i][1] = ""
    THEN Raise("JSONDecodeError", <<"Expecting value">>)
    ELSE Return([k \in {text[i][1] : i \in 1..Len(text)} |->
                    LET i == CHOOSE j \in 1..Len(text) : text[j][1] = k
                    IN  text[i][2]])

\* json.dumps of a string: the string in quotes.
json_dumps_str(s) == <<"\"">> \o s \o <<"\"">>

\* str(e)
str(ex) == ex.msg

\* base64: an encoded blob carries the text it encodes; a blob with wrong
\* padding carries none.
b64encode(text) == [b64 |-> text]
BadBlob == [bad |-> "padding"]
LogTexts == { <<"log tail">> }
LogBlobs == { b64encode(t) : t \in LogTexts } \cup { BadBlob }
\* The response carries no LogResult.
NoBlob == [absent |-> TRUE]

\* What the hub Lambda's payload can be: JSON with a nested statusCode, JSON
\* without one, or no JSON at all.
RemoteObjects == { [statusCode |-> 200], [statusCode |-> 403], [errorMessage |-> 1] }
RemotePayloads == { json_dumps(o) : o \in RemoteObjects } \cup { MalformedText }

\* HTTP status of a response the SDK returns without raising (the SDK raises
\* ClientError for a status of 300 or more).
TransportCodes == { 200, 202 }

\* The dicts lambda_client.invoke can return.
Responses ==
    { ( [ ResponseMetadata |-> [HTTPStatusCode |-> t],
          StatusCode |-> t,
          Payload |-> p ]
        @@ (IF fe THEN [FunctionError |-> "Unhandled"] ELSE <<>>)
        @@ (IF lr = NoBlob THEN <<>> ELSE [LogResult |-> lr]) )
      : t \in TransportCodes, p \in RemotePayloads,
        fe \in BOOLEAN, lr \in LogBlobs \cup {NoBlob} }

\* What a collaborator call can do: the SDK raises ClientError when the
\* service rejects the request and another exception when it is not reached.
StsFailures ==
    { Raise("ClientError", <<"AccessDenied when calling AssumeRole">>),
      Raise("EndpointConnectionError", <<"Could not connect to sts">>) }
InvokeFailures ==
    { Raise("ClientError", <<"ResourceNotFoundException when calling Invoke">>),
      Raise("EndpointConnectionError", <<"Could not connect to lambda">>) }

\* ------------------------------------------------------ the pure functions
\* Variant that reports the nested status code instead of the HTTP status.
handle_response_status_and_msg_nested(response) ==
    LET nested == json_loads(response.Payload).value.statusCode
    IN  [responseStatus |-> IF nested = 200 THEN "SUCCESS" ELSE "FAILED",
         statusCode |-> nested] @@ response

\* Lines 20-26: adds responseStatus and statusCode to the response dict.
handle_response_status_and_msg(response) ==
    [responseStatus |-> IF response.ResponseMetadata.HTTPStatusCode = 200
                        THEN "SUCCESS" ELSE "FAILED",
     statusCode |-> response.ResponseMetadata.HTTPStatusCode] @@ response

\* Variant that honours the statusCode and response_status arguments.
handle_error_uses_arguments(event, error_message, statusCode, response_status) ==
    [event |-> event,
     statusCode |-> statusCode,
     responseStatus |-> response_status,
     body |-> json_dumps_str(error_message)]

\* Lines 29-36: statusCode and response_status are not used.
handle_error(event, error_message, statusCode, response_status) ==
    [event |-> event,
     statusCode |-> 400,
     responseStatus |-> "FAILED",
     body |-> json_dumps_str(error_message)]

decode_log_result(log_result) ==
    IF "b64" \in DOMAIN log_result
    THEN Return(log_result.b64)
    ELSE Raise("binascii.Error", <<"Incorrect padding">>)

\* Variant that tests the FunctionError flag before decoding the payload.
classify_flag_first(event, response) ==
    IF "FunctionError" \in DOMAIN response
    THEN IF "LogResult" \notin DOMAIN response
         THEN Raise("KeyError", <<"'LogResult'">>)
         ELSE LET log_result == decode_log_result(response.LogResult)
              IN  IF log_result.kind = "raise" THEN log_result
                  ELSE Return(handle_error(event, log_result.value, 500, "FAILED"))
    ELSE LET decoded == json_loads(response.Payload)
         IN  IF decoded.kind = "raise" THEN decoded
             ELSE IF "statusCode" \notin DOMAIN decoded.value
             THEN Raise("KeyError", <<"'statusCode'">>)
             ELSE IF decoded.value.statusCode # 200
             THEN IF "LogResult" \notin DOMAIN response
                  THEN Raise("KeyError", <<"'LogResult'">>)
                  ELSE LET log_result == decode_log_result(response.LogResult)
                       IN  IF log_result.kind = "raise" THEN log_result
                           ELSE Return(handle_error(event, log_result.value,
                                          decoded.value.statusCode, "FAILED"))
             ELSE Return(handle_response_status_and_msg(response))

\* Lines 78-91: what the try block does with the response of the invoke call.
classify(event, response) ==
    LET decoded == json_loads(response.Payload)
    IN  IF decoded.kind = "raise" THEN decoded
        ELSE IF "statusCode" \notin DOMAIN decoded.value
        THEN Raise("KeyError", <<"'statusCode'">>)
        ELSE LET actual_status_code == decoded.value.statusCode
             IN  IF "FunctionError" \in DOMAIN response \/ actual_status_code # 200
                 THEN IF "LogResult" \notin DOMAIN response
                      THEN Raise("KeyError", <<"'LogResult'">>)
                      ELSE LET log_result == decode_log_result(response.LogResult)
                           IN  IF log_result.kind = "raise" THEN log_result
                               ELSE Return(handle_error(event, log_result.value,
                                              actual_status_code, "FAILED"))
                 ELSE Return(handle_response_status_and_msg(response))

UnableToInvoke ==
    "Unable to invoke VPC Endpoint permission Lambda function in NETWORK account: "

\* Variant whose except clause catches every exception.
except_ClientError_catches_all(event, outcome) ==
    IF outcome.kind = "raise"
    THEN Return(handle_error(event, <<UnableToInvoke>> \o str(outcome.ex), 500, "FAILED"))
    ELSE outcome

\* Lines 93-95: the except clause of invoke_lambda_in_the_networking_account.
except_ClientError(event, outcome) ==
    IF outcome.kind = "raise" /\ outcome.ex.type = "ClientError"
    THEN Return(handle_error(event, <<UnableToInvoke>> \o str(outcome.ex), 500, "FAILED"))
    ELSE outcome

\* Variant whose body does not carry the exception text.
except_Exception_no_detail(event, outcome) ==
    IF outcome.kind = "raise"
    THEN Return([event |-> event, statusCode |-> 400,
                 responseStatus |-> "FAILED", body |-> <<"error">>])
    ELSE outcome

\* Lines 108-116: the except clause of lambda_handler.
except_Exception(event, outcome) ==
    IF outcome.kind = "raise"
    THEN Return([event |-> event, statusCode |-> 400,
                 responseStatus |-> "FAILED", body |-> str(outcome.ex)])
    ELSE outcome

\* Lines 100-101: the two os.environ lookups.
read_config(env) ==
    IF "VPCE_PERM_ROLE_ARN" \notin DOMAIN env
    THEN Raise("KeyError", <<"'VPCE_PERM_ROLE_ARN'">>)
    ELSE IF "FUNC_NAME" \notin DOMAIN env
    THEN Raise("KeyError", <<"'FUNC_NAME'">>)
    ELSE Return([hub_account_role_arn |-> env["VPCE_PERM_ROLE_ARN"],
                 hub_account_lambda_name |-> env["FUNC_NAME"]])

\* Variant that repeats a collaborator call that raised.
after_call_retries(step, outcome) ==
    IF outcome.kind = "raise" THEN step
    ELSE IF step = "assume" THEN "invoke" ELSE "done"

\* Where control goes after a collaborator call of the try block: on to the
\* next statement, or out of the function when the call raised.
after_call(step, outcome) ==
    IF outcome.kind = "raise" THEN "done"
    ELSE IF step = "assume" THEN "invoke" ELSE "done"

\* ------------------------------------------------------------- the state
VARIABLES
    environ,      \* os.environ of the process
    pc,           \* where each execution environment is in lambda_handler
    callId,       \* number of the lambda_handler call an environment runs (ran last)
    event,        \* the event argument of the running call
    config,       \* hub_account_role_arn and hub_account_lambda_name
    creds,        \* the temporary credentials held by the running call
    assumeCount,  \* assume_role requests issued by the call
    invokeCount,  \* invoke requests issued by the call
    failed,       \* whether a step of the call has raised
    invoked,      \* the calls that issued an invoke request
    started,      \* number of lambda_handler calls made so far
    lastAssume,   \* the assume_role request issued by the step just taken, if any
    lastInvoke,   \* the invoke request issued by the step just taken, if any
    returned      \* the call the step just taken ended, if any: what it got and gave back

vars == <<environ, pc, callId, event, config, creds, assumeCount, invokeCount,
          failed, invoked, started, lastAssume, lastInvoke, returned>>

None == "None"
NoFault == [step |-> "none"]
NoCreds == [issuedTo |-> 0]
NoRequest == [call |-> 0]

\* What the caller of lambda_handler gets: outcome is the returned mapping or
\* the exception that left lambda_handler; the rest records what happened in
\* the call (the response of the invoke call, the exception raised and the
\* step that raised it).
Delivery(c, id, ev, resp, flt, outcome) ==
    [proc |-> c, call |-> id, event |-> ev, response |-> resp,
     fault |-> flt, outcome |-> outcome]
NoDelivery == Delivery(0, 0, None, <<>>, NoFault, Return(None))

Init ==
    /\ environ \in Environments
    /\ pc = [c \in Procs |-> "idle"]
    /\ callId = [c \in Procs |-> 0]
    /\ event = [c \in Procs |-> None]
    /\ config = [c \in Procs |-> None]
    /\ creds = [c \in Procs |-> NoCreds]
    /\ assumeCount = [c \in Procs |-> 0]
    /\ invokeCount = [c \in Procs |-> 0]
    /\ failed = [c \in Procs |-> FALSE]
    /\ invoked = {}
    /\ started = 0
    /\ lastAssume = NoRequest
    /\ lastInvoke = NoRequest
    /\ returned = NoDelivery

\* lambda_handler is called with an event: lines 98-101.  The os.environ
\* lookups stand before the try statement, so a KeyError they raise leaves
\* lambda_handler.
Call(c, ev) ==
    /\ pc[c] = "idle"
    /\ started < MaxCalls
    /\ started' = started + 1
    /\ callId' = [callId EXCEPT ![c] = started + 1]
    /\ creds' = [creds EXCEPT ![c] = NoCreds]
    /\ assumeCount' = [assumeCount EXCEPT ![c] = 0]
    /\ invokeCount' = [invokeCount EXCEPT ![c] = 0]
    /\ LET cfg == read_config(environ)
       IN  IF cfg.kind = "raise"
           THEN /\ returned' = Delivery(c, started + 1, ev, <<>>,
                                        [step |-> "config", ex |-> cfg.ex], cfg)
                /\ failed' = [failed EXCEPT ![c] = TRUE]
                /\ UNCHANGED <<pc, event, config>>
           ELSE /\ pc' = [pc EXCEPT ![c] = "assume"]
                /\ event' = [event EXCEPT ![c] = ev]
                /\ config' = [config EXCEPT ![c] = cfg.value]
                /\ failed' = [failed EXCEPT ![c] = FALSE]
                /\ returned' = NoDelivery
    /\ lastAssume' = NoRequest
    /\ lastInvoke' = NoRequest
    /\ UNCHANGED <<environ, invoked>>

\* The running call of c ends: its locals are gone.
Ended(c) ==
    /\ pc' = [pc EXCEPT ![c] = "idle"]
    /\ event' = [event EXCEPT ![c] = None]
    /\ config' = [config EXCEPT ![c] = None]
    /\ creds' = [creds EXCEPT ![c] = NoCreds]

\* get_lambda_client_in_hub_account, lines 39-55, called at line 72 inside
\* the try block of invoke_lambda_in_the_networking_account; when assume_role
\* raises, the except clauses of lines 93-95 and 108-116 and the return.
AssumeRole(c) ==
    /\ pc[c] = "assume"
    /\ \E o \in {Return([issuedTo |-> callId[c]])} \cup StsFailures :
         /\ lastAssume' = [call |-> callId[c],
                           RoleArn |-> config[c].hub_account_role_arn,
                           RoleSessionName |-> "VPCE_PERMISSIONS",
                           granted |-> o.kind = "return"]
         /\ assumeCount' = [assumeCount EXCEPT ![c] = @ + 1]
         /\ failed' = [failed EXCEPT ![c] = @ \/ o.kind = "raise"]
         /\ IF after_call("assume", o) = "done"
            THEN /\ Ended(c)
                 /\ returned' = Delivery(c, callId[c], event[c], <<>>,
                        [step |-> "assume", ex |-> o.ex],
                        except_Exception(event[c], except_ClientError(event[c], o)))
            ELSE /\ pc' = [pc EXCEPT ![c] = after_call("assume", o)]
                 /\ creds' = [creds EXCEPT ![c] =
                                 IF o.kind = "return" THEN o.value ELSE @]
                 /\ returned' = NoDelivery
                 /\ UNCHANGED <<event, config>>
    /\ lastInvoke' = NoRequest
    /\ UNCHANGED <<environ, callId, invokeCount, invoked, started>>

\* lambda_client.invoke and the rest of the try block, lines 73-91, the
\* except clauses of lines 93-95 and 108-116 and the return, lines 104-106.
InvokeRemote(c) ==
    /\ pc[c] = "invoke"
    /\ \E o \in {Return(r) : r \in Responses} \cup InvokeFailures :
         LET body == IF o.kind = "return" THEN classify(event[c], o.value) ELSE o
         IN
           /\ lastInvoke' = [call |-> callId[c],
                             event |-> event[c],
                             creds |-> creds[c],
                             FunctionName |-> config[c].hub_account_lambda_name,
                             LogType |-> "Tail",
                             Payload |-> json_dumps(event[c])]
           /\ invokeCount' = [invokeCount EXCEPT ![c] = @ + 1]
           /\ invoked' = invoked \cup {callId[c]}
           /\ failed' = [failed EXCEPT ![c] = @ \/ body.kind = "raise"]
           /\ IF after_call("invoke", body) = "done"
              THEN /\ Ended(c)
                   /\ returned' = Delivery(c, callId[c], event[c],
                          IF o.kind = "return" THEN o.value ELSE <<>>,
                          IF body.kind = "return" THEN NoFault
                          ELSE [step |-> IF o.kind = "raise" THEN "invoke" ELSE "classify",
                                ex |-> body.ex],
                          except_Exception(event[c], except_ClientError(event[c], body)))
              ELSE /\ pc' = [pc EXCEPT ![c] = after_call("invoke", body)]
                   /\ returned' = NoDelivery
                   /\ UNCHANGED <<event, config, creds>>
    /\ lastAssume' = NoRequest
    /\ UNCHANGED <<environ, callId, assumeCount, started>>

Next ==
    \/ \E c \in Procs, ev \in Events : Call(c, ev)
    \/ \E c \in Procs : AssumeRole(c)
    \/ \E c \in Procs : InvokeRemote(c)

Spec == Init /\ [][Next]_vars

\* ------------------------------------------------------------ properties
Delivered == returned.call # 0
Gave == returned.outcome.kind = "return"
Value == returned.outcome.value
FourKeys == {"event", "statusCode", "responseStatus", "body"}
GotResponse == "Payload" \in DOMAIN returned.response
Contains(seq, x) == \E i \in 1..Len(seq) : seq[i] = x

\* C1: every call of lambda_handler ends with a returned mapping, never with
\* an exception, and a call made with VPCE_PERM_ROLE_ARN or FUNC_NAME missing
\* ends with statusCode 400 and responseStatus FAILED.
C1_NeverRaises ==
    Delivered =>
        /\ Gave
        /\ returned.fault.step = "config" =>
              Value.statusCode = 400 /\ Value.responseStatus = "FAILED"

\* C2: every mapping lambda_handler returns has exactly the keys event,
\* statusCode, responseStatus and body, and responseStatus is SUCCESS or FAILED.
C2_ExactlyFourKeys ==
    (Delivered /\ Gave) =>
        /\ DOMAIN Value = FourKeys
        /\ Value.responseStatus \in {"SUCCESS", "FAILED"}

\* C3: when the payload of the response decodes to JSON with a nested
\* statusCode, the returned (statusCode, responseStatus) is (400, FAILED) if
\* the response has the FunctionError flag or the nested code is not 200, and
\* otherwise (transport code, SUCCESS if the transport code is 200 else FAILED).
C3_Classification ==
    (Delivered /\ GotResponse) =>
        LET r == returned.response
            d == json_loads(r.Payload)
        IN  (d.kind = "return" /\ "statusCode" \in DOMAIN d.value) =>
              /\ Gave
              /\ <<Value.statusCode, Value.responseStatus>> =
                    IF "FunctionError" \in DOMAIN r \/ d.value.statusCode # 200
                    THEN <<400, "FAILED">>
                    ELSE <<r.StatusCode,
                           IF r.StatusCode = 200 THEN "SUCCESS" ELSE "FAILED">>

C3_Witness ==
    /\ Delivered /\ GotResponse /\ Gave
    /\ json_loads(returned.response.Payload) = Return([statusCode |-> 403])
    /\ "FunctionError" \notin DOMAIN returned.response
    /\ Value.statusCode = 400

\* C4: when the invoke call raises a ClientError, lambda_handler returns
\* statusCode 400 and responseStatus FAILED.
C4_TransportFailure ==
    (Delivered /\ returned.fault.step = "invoke"
               /\ returned.fault.ex.type = "ClientError") =>
        /\ Gave
        /\ Value.statusCode = 400
        /\ Value.responseStatus = "FAILED"

C4_Witness ==
    /\ Delivered /\ Gave
    /\ returned.fault.step = "invoke"
    /\ returned.fault.ex.type = "ClientError"
    /\ Value.responseStatus = "FAILED"

\* C5: when the assume_role request fails, lambda_handler returns statusCode
\* 400 and responseStatus FAILED, the body contains the failure detail, and
\* the call has issued no invoke request.
C5_AssumeFailure ==
    (Delivered /\ returned.fault.step = "assume") =>
        /\ Gave
        /\ Value.statusCode = 400
        /\ Value.responseStatus = "FAILED"
        /\ \A i \in 1..Len(returned.fault.ex.msg) :
              Contains(Value.body, returned.fault.ex.msg[i])
        /\ returned.call \notin invoked

C5_Witness ==
    /\ Delivered /\ Gave
    /\ returned.fault.step = "assume"
    /\ returned.fault.ex.type = "ClientError"
    /\ Contains(Value.body, "AccessDenied when calling AssumeRole")
    /\ invoked # {}

\* C6: the payload of every invoke request decodes to the event the call was
\* made with, and an event field in the returned mapping is that event.
C6_EventUnchanged ==
    /\ lastInvoke.call # 0 =>
          json_loads(lastInvoke.Payload) = Return(lastInvoke.event)
    /\ (Delivered /\ Gave /\ "event" \in DOMAIN Value) =>
          Value.event = returned.event

C6_Witness ==
    /\ lastInvoke.call # 0
    /\ "ServiceId" \in DOMAIN lastInvoke.event
    /\ Delivered /\ Gave /\ "event" \in DOMAIN Value
    /\ returned.call = lastInvoke.call

C8_State ==
    /\ \A c \in Procs :
          /\ assumeCount[c] <= 1
          /\ invokeCount[c] <= 1
          /\ invokeCount[c] = 1 => assumeCount[c] = 1
    /\ lastInvoke.call # 0 => lastInvoke.creds.issuedTo = lastInvoke.call

C8_Step ==
    /\ C8_State'
    /\ \A c \in Procs :
          (failed[c] /\ callId'[c] = callId[c]) =>
              /\ assumeCount'[c] = assumeCount[c]
              /\ invokeCount'[c] = invokeCount[c]

C8_LinearNoRetry == [][C8_Step]_vars

C8_Witness ==
    /\ lastInvoke.call = 2
    /\ lastInvoke.creds.issuedTo = 2
    /\ \E c \in Procs : callId[c] = 1 /\ failed[c] /\ assumeCount[c] = 1

\* C9: when the payload does not decode as JSON or has no nested statusCode,
\* with or without the FunctionError flag, the exception is raised while the
\* response is classified and converted by the catch-all: statusCode 400,
\* responseStatus FAILED, body str(ex) and not the decoded log tail.
C9_DecodeBeforeFlag ==
    (Delivered /\ GotResponse) =>
        LET r == returned.response
            d == json_loads(r.Payload)
        IN  (d.kind = "raise" \/ "statusCode" \notin DOMAIN d.value) =>
              /\ Gave
              /\ returned.fault.step = "classify"
              /\ returned.fault.ex.type =
                    IF d.kind = "raise" THEN "JSONDecodeError" ELSE "KeyError"
              /\ Value.statusCode = 400
              /\ Value.responseStatus = "FAILED"
              /\ Value.body = str(returned.fault.ex)
              /\ \A t \in LogTexts : Value.body # <<"\"">> \o t \o <<"\"">>

C9_Witness ==
    /\ Delivered /\ GotResponse /\ Gave
    /\ "FunctionError" \in DOMAIN returned.response
    /\ "LogResult" \in DOMAIN returned.response
    /\ "b64" \in DOMAIN returned.response.LogResult
    /\ returned.response.Payload = MalformedText
    /\ Value.body = <<"Expecting value">>

\* C10: in every returned mapping responseStatus is SUCCESS exactly when
\* statusCode is 200, a mapping built for an error has statusCode 400, and
\* statusCode is never 500.
C10_StatusAgreement ==
    (Delivered /\ Gave) =>
        /\ Value.responseStatus = "SUCCESS" <=> Value.statusCode = 200
        /\ "body" \in DOMAIN Value => Value.statusCode = 400
        /\ Value.statusCode # 500

C10_Witness ==
    /\ Delivered /\ Gave
    /\ returned.fault.step = "assume"
    /\ returned.fault.ex.type = "ClientError"
    /\ Value.statusCode = 400
    /\ Value.responseStatus = "FAILED"
====
